---- MODULE Spec2Model ----
(***************************************************************************)
(* GuardDuty filter resource (finding-criteria codec and CRUD handlers)    *)
(* and the Elasticsearch advanced-security-options expander of the AWS     *)
(* provider.                                                               *)
(*                                                                         *)
(* Go strings that the code inspects character by character (criterion     *)
(* values, resource IDs, detector IDs, filter names) are sequences of      *)
(* one-character strings; strings that are only compared (field and        *)
(* condition names) are TLA+ strings.  A Go pointer or slice that may be   *)
(* nil is a sequence of length at most one: Nil or Some(v).  An int64 is a *)
(* sign and a decimal magnitude [neg, mag], mag a digit sequence without   *)
(* leading zeros, so that values up to 2^63 and beyond stay exact.         *)
(***************************************************************************)
EXTENDS Integers, Sequences, FiniteSets, TLC

VARIABLES
    input,      \* codec: the criterion list handed to serializeFindingCriteria
    out,        \* codec: what serializeFindingCriteria returned
    remoteFc,   \* codec: the FindingCriteria handed to flattenFindingCriteria
    flat,       \* codec: flatCriteria, as appended by flattenFindingCriteria
    flatSet,    \* codec: the criterion set flattenFindingCriteria returned
    pc,         \* which operation ran last
    d,          \* handlers: the schema.ResourceData (ID and attributes)
    remote,     \* handlers: the filter the service holds, if any
    calls,      \* handlers: the remote calls the last handler issued, in order
    answers,    \* handlers: how the service answered each of these calls
    ret,        \* handlers: what the last handler returned
    m,          \* expander: the advanced_security_options block
    config      \* expander: the AdvancedSecurityOptionsInput returned

vars ==
    <<input, out, remoteFc, flat, flatSet, pc, d, remote, calls, answers, ret, m, config>>

----------------------------------------------------------------------------
(* Nil-able values *)

Nil == <<>>

Some(v) == <<v>>

IsNil(p) == Len(p) = 0

Deref(p) == p[1]

----------------------------------------------------------------------------
(* Bounds of the model *)

\* the longest criterion list handed to the codec
MaxCriteria == 2

\* the most fields a FindingCriteria received from the service holds
MaxRemoteFields == 1

----------------------------------------------------------------------------
(* strconv.ParseInt / strconv.FormatInt, base 10 *)

Digits == <<"0", "1", "2", "3", "4", "5", "6", "7", "8", "9">>

IsDigit(c) == \E i \in 1..10 : Digits[i] = c

DigitVal(c) == (CHOOSE i \in 1..10 : Digits[i] = c) - 1

DigitChar(n) == Digits[n + 1]

Zero == <<0>>

\* n * 10 + dg on magnitudes
MulAdd10(n, dg) == IF n = Zero THEN <<dg>> ELSE Append(n, dg)

RECURSIVE MagLessFrom(_, _, _)
MagLessFrom(a, b, i) ==
    IF i > Len(a) THEN FALSE
    ELSE IF a[i] # b[i] THEN a[i] < b[i]
    ELSE MagLessFrom(a, b, i + 1)

\* a < b on magnitudes
MagLess(a, b) ==
    IF Len(a) # Len(b) THEN Len(a) < Len(b) ELSE MagLessFrom(a, b, 1)

\* 1<<bitSize - 1
MaxUint(bitSize) ==
    IF bitSize = 64
    THEN <<1, 8, 4, 4, 6, 7, 4, 4, 0, 7, 3, 7, 0, 9, 5, 5, 1, 6, 1, 5>>
    ELSE <<4, 2, 9, 4, 9, 6, 7, 2, 9, 5>>

\* 1 << (bitSize - 1)
IntCutoff(bitSize) ==
    IF bitSize = 64
    THEN <<9, 2, 2, 3, 3, 7, 2, 0, 3, 6, 8, 5, 4, 7, 7, 5, 8, 0, 8>>
    ELSE <<2, 1, 4, 7, 4, 8, 3, 6, 4, 8>>

\* the digit loop of strconv.ParseUint: "syntax" at the first character that
\* is no digit, "range" as soon as the value passes 1<<bitSize - 1
RECURSIVE ParseUintFrom(_, _, _, _)
ParseUintFrom(s, i, n, bitSize) ==
    IF i > Len(s) THEN [err |-> "", n |-> n]
    ELSE IF ~IsDigit(s[i]) THEN [err |-> "syntax", n |-> Zero]
    ELSE LET n1 == MulAdd10(n, DigitVal(s[i]))
         IN  IF MagLess(MaxUint(bitSize), n1)
             THEN [err |-> "range", n |-> MaxUint(bitSize)]
             ELSE ParseUintFrom(s, i + 1, n1, bitSize)

ParseUint(s, bitSize) ==
    IF Len(s) = 0 THEN [err |-> "syntax", n |-> Zero]
    ELSE ParseUintFrom(s, 1, Zero, bitSize)

\* strconv.ParseInt(s, 10, bitSize): an optional sign, then ParseUint, then the
\* signed range
ParseInt(s, bitSize) ==
    IF Len(s) = 0 THEN [err |-> "syntax", val |-> [neg |-> FALSE, mag |-> Zero]]
    ELSE LET signed == s[1] = "+" \/ s[1] = "-"
             neg == s[1] = "-"
             un == ParseUint(IF signed THEN SubSeq(s, 2, Len(s)) ELSE s, bitSize)
         IN  IF un.err # ""
             THEN [err |-> un.err, val |-> [neg |-> FALSE, mag |-> Zero]]
             ELSE IF ~neg /\ ~MagLess(un.n, IntCutoff(bitSize))
             THEN [err |-> "range", val |-> [neg |-> FALSE, mag |-> Zero]]
             ELSE IF neg /\ MagLess(IntCutoff(bitSize), un.n)
             THEN [err |-> "range", val |-> [neg |-> FALSE, mag |-> Zero]]
             ELSE [err |-> "", val |-> [neg |-> neg /\ un.n # Zero, mag |-> un.n]]

\* strconv.FormatInt(v, 10)
FormatInt(v) ==
    LET digits == [i \in 1..Len(v.mag) |-> DigitChar(v.mag[i])]
    IN  IF v.neg THEN <<"-">> \o digits ELSE digits

----------------------------------------------------------------------------
(* The field registry *)

Equality == <<"equals", "not_equals">>

AllConditions ==
    <<"equals", "not_equals", "greater_than", "greater_than_or_equal",
      "less_than", "less_than_or_equal">>

EqualityFields ==
    { "confidence", "id", "account_id", "region",
      "resource.accessKeyDetails.accessKeyId",
      "resource.accessKeyDetails.principalId",
      "resource.accessKeyDetails.userName",
      "resource.accessKeyDetails.userType",
      "resource.instanceDetails.iamInstanceProfile.id",
      "resource.instanceDetails.imageId",
      "resource.instanceDetails.instanceId",
      "resource.instanceDetails.networkInterfaces.ipv6Addresses",
      "resource.instanceDetails.networkInterfaces.privateIpAddresses.privateIpAddress",
      "resource.instanceDetails.networkInterfaces.publicDnsName",
      "resource.instanceDetails.networkInterfaces.publicIp",
      "resource.instanceDetails.networkInterfaces.securityGroups.groupId",
      "resource.instanceDetails.networkInterfaces.securityGroups.groupName",
      "resource.instanceDetails.networkInterfaces.subnetId",
      "resource.instanceDetails.networkInterfaces.vpcId",
      "resource.instanceDetails.tags.key",
      "resource.instanceDetails.tags.value",
      "resource.resourceType",
      "service.action.actionType",
      "service.action.awsApiCallAction.api",
      "service.action.awsApiCallAction.callerType",
      "service.action.awsApiCallAction.remoteIpDetails.city.cityName",
      "service.action.awsApiCallAction.remoteIpDetails.country.countryName",
      "service.action.awsApiCallAction.remoteIpDetails.ipAddressV4",
      "service.action.awsApiCallAction.remoteIpDetails.organization.asn",
      "service.action.awsApiCallAction.remoteIpDetails.organization.asnOrg",
      "service.action.awsApiCallAction.serviceName",
      "service.action.dnsRequestAction.domain",
      "service.action.networkConnectionAction.blocked",
      "service.action.networkConnectionAction.connectionDirection",
      "service.action.networkConnectionAction.localPortDetails.port",
      "service.action.networkConnectionAction.protocol",
      "service.action.networkConnectionAction.remoteIpDetails.city.cityName",
      "service.action.networkConnectionAction.remoteIpDetails.country.countryName",
      "service.action.networkConnectionAction.remoteIpDetails.ipAddressV4",
      "service.action.networkConnectionAction.remoteIpDetails.organization.asn",
      "service.action.networkConnectionAction.remoteIpDetails.organization.asnOrg",
      "service.action.networkConnectionAction.remotePortDetails.port",
      "service.additionalInfo.threatListName",
      "service.archived",
      "service.resourceRole",
      "severity",
      "type" }

\* criteriaMap(): field name -> the conditions it allows
criteriaMap ==
    [f \in EqualityFields \cup {"updatedAt"} |->
        IF f = "updatedAt" THEN AllConditions ELSE Equality]

\* criteriaMap()[field]: a nil slice for a field the map does not hold
RegistryLookup(field) ==
    IF field \in DOMAIN criteriaMap THEN criteriaMap[field] ELSE <<>>

conditionAllowedForCriterion_AnyKnownField(criterion) ==
    criterion.field \in DOMAIN criteriaMap

conditionAllowedForCriterion(criterion) ==
    \E i \in 1..Len(RegistryLookup(criterion.field)) :
        RegistryLookup(criterion.field)[i] = criterion.condition

----------------------------------------------------------------------------
(* guardduty.Condition and guardduty.FindingCriteria *)

\* &guardduty.Condition{}: every attribute nil
EmptyCondition ==
    [Equals |-> Nil, NotEquals |-> Nil, GreaterThan |-> Nil,
     GreaterThanOrEqual |-> Nil, LessThan |-> Nil, LessThanOrEqual |-> Nil]

\* map[string]*guardduty.Condition{}
EmptyMap == [f \in {} |-> EmptyCondition]

\* criteria[field] = condition
MapPut(criteria, field, condition) ==
    [f \in DOMAIN criteria \cup {field} |->
        IF f = field THEN condition ELSE criteria[f]]

OrderingConditions ==
    {"greater_than", "greater_than_or_equal", "less_than", "less_than_or_equal"}

\* the Condition attribute an ordering condition is stored in
ScalarOf(condition, record) ==
    CASE condition = "greater_than" -> record.GreaterThan
      [] condition = "greater_than_or_equal" -> record.GreaterThanOrEqual
      [] condition = "less_than" -> record.LessThan
      [] condition = "less_than_or_equal" -> record.LessThanOrEqual

WithScalar(record, condition, value) ==
    CASE condition = "greater_than" -> [record EXCEPT !.GreaterThan = Some(value)]
      [] condition = "greater_than_or_equal" ->
            [record EXCEPT !.GreaterThanOrEqual = Some(value)]
      [] condition = "less_than" -> [record EXCEPT !.LessThan = Some(value)]
      [] condition = "less_than_or_equal" ->
            [record EXCEPT !.LessThanOrEqual = Some(value)]

----------------------------------------------------------------------------
(* Errors: the format string and its argument *)

NoError == [msg |-> "", arg |-> <<>>]

UnsupportedCondition(field) ==
    [msg |-> "The condition is not supported for the given field. Supported conditions are: %v",
     arg |-> RegistryLookup(field)]

ValueNotInteger(value) ==
    [msg |-> "Value seems to be not an integer: %v", arg |-> value]

IndexOutOfRange == [msg |-> "runtime error: index out of range", arg |-> <<>>]

----------------------------------------------------------------------------
(* serializeFindingCriteria *)

\* conditionValueToStrings: the values, each asserted to be a string
conditionValueToStrings(untypedValues) ==
    [i \in 1..Len(untypedValues) |-> untypedValues[i]]

conditionValueToInt_Int32(untypedValues) ==
    IF Len(untypedValues) # 1
    THEN [err |-> "Exactly one value must be given for conditions like less_ or greater_than. Instead given: %v",
          value |-> [neg |-> FALSE, mag |-> Zero]]
    ELSE LET parsed == ParseInt(untypedValues[1], 32)
         IN  IF parsed.err # ""
             THEN [err |-> "Parsing condition value failed: %s",
                   value |-> [neg |-> FALSE, mag |-> Zero]]
             ELSE [err |-> "", value |-> parsed.val]

\* conditionValueToInt: exactly one value, parsed as a base-10 int64
conditionValueToInt(untypedValues) ==
    IF Len(untypedValues) # 1
    THEN [err |-> "Exactly one value must be given for conditions like less_ or greater_than. Instead given: %v",
          value |-> [neg |-> FALSE, mag |-> Zero]]
    ELSE LET parsed == ParseInt(untypedValues[1], 64)
         IN  IF parsed.err # ""
             THEN [err |-> "Parsing condition value failed: %s",
                   value |-> [neg |-> FALSE, mag |-> Zero]]
             ELSE [err |-> "", value |-> parsed.val]

\* case "equals" / case "not_equals": a fresh Condition holding only the
\* string slice replaces whatever the field had
SetStrings(criteria, field, condition, values) ==
    MapPut(criteria, field,
           IF condition = "equals"
           THEN [EmptyCondition EXCEPT !.Equals = Some(conditionValueToStrings(values))]
           ELSE [EmptyCondition EXCEPT !.NotEquals = Some(conditionValueToStrings(values))])

SetScalar_AlwaysFresh(criteria, field, condition, value) ==
    MapPut(criteria, field, WithScalar(EmptyCondition, condition, value))

\* the four ordering cases: a fresh Condition when the field has none, else
\* the attribute is set on the field's Condition in place
SetScalar(criteria, field, condition, value) ==
    IF field \notin DOMAIN criteria
    THEN MapPut(criteria, field, WithScalar(EmptyCondition, condition, value))
    ELSE MapPut(criteria, field, WithScalar(criteria[field], condition, value))

\* one iteration of the loop of serializeFindingCriteria
serializeCriterion(criteria, typedCriterion) ==
    IF ~conditionAllowedForCriterion(typedCriterion)
    THEN [kind |-> "error", criteria |-> criteria,
          err |-> UnsupportedCondition(typedCriterion.field)]
    ELSE IF typedCriterion.condition \in OrderingConditions
    THEN LET r == conditionValueToInt(typedCriterion.values)
         IN  IF r.err # ""
             THEN IF Len(typedCriterion.values) = 0
                  THEN \* values[0] of an empty slice, evaluated for the message
                       [kind |-> "panic", criteria |-> criteria,
                        err |-> IndexOutOfRange]
                  ELSE [kind |-> "error", criteria |-> criteria,
                        err |-> ValueNotInteger(typedCriterion.values[1])]
             ELSE [kind |-> "ok",
                   criteria |-> SetScalar(criteria, typedCriterion.field,
                                          typedCriterion.condition, r.value),
                   err |-> NoError]
    ELSE [kind |-> "ok",
          criteria |-> SetStrings(criteria, typedCriterion.field,
                                  typedCriterion.condition, typedCriterion.values),
          err |-> NoError]

\* the loop after its first k iterations, started with the map `criteria`;
\* it ends at the first iteration that returns or panics
RECURSIVE serializeLoop(_, _, _)
serializeLoop(inputFindingCriteria, k, criteria) ==
    IF k = 0 THEN [kind |-> "ok", criteria |-> criteria, err |-> NoError]
    ELSE LET before == serializeLoop(inputFindingCriteria, k - 1, criteria)
         IN  IF before.kind # "ok" THEN before
             ELSE serializeCriterion(before.criteria, inputFindingCriteria[k])

\* what serializeFindingCriteria hands back: (&FindingCriteria, nil),
\* (nil, err) or a panic
Returned(loop) ==
    [kind |-> loop.kind,
     fc |-> IF loop.kind = "ok" THEN Some([Criterion |-> loop.criteria]) ELSE Nil,
     err |-> loop.err]

serializeFindingCriteria_Prefilled(inputFindingCriteria) ==
    Returned(serializeLoop(inputFindingCriteria, Len(inputFindingCriteria),
                           [f \in DOMAIN criteriaMap |-> EmptyCondition]))

serializeFindingCriteria(inputFindingCriteria) ==
    Returned(serializeLoop(inputFindingCriteria, Len(inputFindingCriteria), EmptyMap))

----------------------------------------------------------------------------
(* flattenFindingCriteria *)

flattenIntCondition(field, conditionName, conditionValue) ==
    [field |-> field, condition |-> conditionName,
     values |-> <<FormatInt(Deref(conditionValue))>>]

flattenStringCondition(field, conditionName, conditionValues) ==
    [field |-> field, condition |-> conditionName,
     values |-> [i \in 1..Len(Deref(conditionValues)) |-> Deref(conditionValues)[i]]]

\* len(slice): 0 for a nil slice
LenSlice(p) == IF IsNil(p) THEN 0 ELSE Len(Deref(p))

flattenField_NonNil(field, conditions) ==
    (IF ~IsNil(conditions.Equals)
        THEN <<flattenStringCondition(field, "equals", conditions.Equals)>> ELSE <<>>)
    \o (IF ~IsNil(conditions.NotEquals)
        THEN <<flattenStringCondition(field, "not_equals", conditions.NotEquals)>>
        ELSE <<>>)
    \o (IF ~IsNil(conditions.GreaterThan)
        THEN <<flattenIntCondition(field, "greater_than", conditions.GreaterThan)>>
        ELSE <<>>)
    \o (IF ~IsNil(conditions.GreaterThanOrEqual)
        THEN <<flattenIntCondition(field, "greater_than_or_equal",
                                   conditions.GreaterThanOrEqual)>>
        ELSE <<>>)
    \o (IF ~IsNil(conditions.LessThan)
        THEN <<flattenIntCondition(field, "less_than", conditions.LessThan)>>
        ELSE <<>>)
    \o (IF ~IsNil(conditions.LessThanOrEqual)
        THEN <<flattenIntCondition(field, "less_than_or_equal",
                                   conditions.LessThanOrEqual)>>
        ELSE <<>>)

\* the body of the range loop: what one field appends to flatCriteria
flattenField(field, conditions) ==
    (IF LenSlice(conditions.Equals) > 0
        THEN <<flattenStringCondition(field, "equals", conditions.Equals)>> ELSE <<>>)
    \o (IF LenSlice(conditions.NotEquals) > 0
        THEN <<flattenStringCondition(field, "not_equals", conditions.NotEquals)>>
        ELSE <<>>)
    \o (IF ~IsNil(conditions.GreaterThan)
        THEN <<flattenIntCondition(field, "greater_than", conditions.GreaterThan)>>
        ELSE <<>>)
    \o (IF ~IsNil(conditions.GreaterThanOrEqual)
        THEN <<flattenIntCondition(field, "greater_than_or_equal",
                                   conditions.GreaterThanOrEqual)>>
        ELSE <<>>)
    \o (IF ~IsNil(conditions.LessThan)
        THEN <<flattenIntCondition(field, "less_than", conditions.LessThan)>>
        ELSE <<>>)
    \o (IF ~IsNil(conditions.LessThanOrEqual)
        THEN <<flattenIntCondition(field, "less_than_or_equal",
                                   conditions.LessThanOrEqual)>>
        ELSE <<>>)

\* flatCriteria after ranging over the map in the order `order` (Go leaves
\* the iteration order of a map open)
RECURSIVE flattenLoop(_, _, _)
flattenLoop(findingCriteriaRemote, order, k) ==
    IF k = 0 THEN <<>>
    ELSE flattenLoop(findingCriteriaRemote, order, k - 1)
         \o flattenField(order[k], findingCriteriaRemote.Criterion[order[k]])

\* the orders a range over a map with these keys may take
IterationOrders(keys) ==
    {o \in [1..Cardinality(keys) -> keys] : \A f \in keys : \E i \in DOMAIN o : o[i] = f}

\* schema.NewSet(hash, items): one element per distinct item
NewSet(items) == {items[i] : i \in 1..Len(items)}

\* the criterion set flattenFindingCriteria returns, the map ranged over in
\* the order `order`
flattenFindingCriteria(findingCriteriaRemote, order) ==
    NewSet(flattenLoop(findingCriteriaRemote, order, Len(order)))

\* (*schema.Set).List(): the elements, each once, in the order of their hash
\* codes, which the model leaves open
Listings(set) ==
    {l \in [1..Cardinality(set) -> set] : \A x \in set : \E i \in DOMAIN l : l[i] = x}

----------------------------------------------------------------------------
(* Inputs of the codec *)

S5 == <<"5">>

S10 == <<"1", "0">>

Sabc == <<"a", "b", "c">>

Criterion(field, condition, values) ==
    [field |-> field, condition |-> condition, values |-> values]

\* criteria the codec is exercised with: ordering bounds on updatedAt with
\* zero, one and two values, string conditions with and without values,
\* ordering conditions on a field that allows none, and a field the registry
\* does not hold
CodecCriteria ==
    {Criterion("updatedAt", c, v) :
        c \in OrderingConditions,
        v \in {<<>>, <<S5>>, <<S10>>, <<Sabc>>, <<S5, S10>>}}
    \cup {Criterion(f, c, v) :
            f \in {"updatedAt", "id"}, c \in {"equals", "not_equals"},
            v \in {<<>>, <<S5>>, <<S5, S10>>}}
    \cup {Criterion("id", c, v) :
            c \in {"greater_than", "less_than"}, v \in {<<>>, <<S5>>}}
    \cup {Criterion("unregistered", c, <<S5>>) : c \in {"equals", "greater_than"}}

\* the lists a schema.Set of these criteria may list: no element twice
ListsOf(universe, maxLen) ==
    UNION {{l \in [1..n -> universe] : \A i, j \in 1..n : i # j => l[i] # l[j]} :
            n \in 0..maxLen}

CodecLists == ListsOf(CodecCriteria, MaxCriteria)

\* single values an ordering criterion is parsed from
ParseStrings ==
    { <<>>, <<"0">>, <<"7">>, <<"-", "3">>, <<"+", "7">>, <<"0", "0", "7">>,
      <<"-", "0">>, <<"+">>, <<"-">>, <<"5", "x">>, <<"1", "_", "0">>,
      <<" ", "5">>, <<"1", ".", "5">>, <<"a", "b", "c">>,
      <<"2", "1", "4", "7", "4", "8", "3", "6", "4", "8">>,
      <<"9", "2", "2", "3", "3", "7", "2", "0", "3", "6", "8", "5", "4", "7",
        "7", "5", "8", "0", "7">>,
      <<"9", "2", "2", "3", "3", "7", "2", "0", "3", "6", "8", "5", "4", "7",
        "7", "5", "8", "0", "8">>,
      <<"-", "9", "2", "2", "3", "3", "7", "2", "0", "3", "6", "8", "5", "4",
        "7", "7", "5", "8", "0", "8">>,
      <<"-", "9", "2", "2", "3", "3", "7", "2", "0", "3", "6", "8", "5", "4",
        "7", "7", "5", "8", "0", "9">>,
      <<"1", "8", "4", "4", "6", "7", "4", "4", "0", "7", "3", "7", "0", "9",
        "5", "5", "1", "6", "1", "6">>,
      <<"1", "0", "0", "0", "0", "0", "0", "0", "0", "0", "0", "0", "0", "0",
        "0", "0", "0", "0", "0", "0", "0">> }

\* criteria that pass, to precede the parsed one
ParsePrefixCriteria ==
    { Criterion("id", "equals", <<S5>>),
      Criterion("updatedAt", "not_equals", <<S5, S10>>),
      Criterion("updatedAt", "equals", <<Sabc>>) }

ParseLists ==
    {Append(l, Criterion("updatedAt", c, <<s>>)) :
        l \in ListsOf(ParsePrefixCriteria, MaxCriteria - 1),
        c \in OrderingConditions, s \in ParseStrings}

\* Condition records the service may answer with
RemoteConditions ==
    [Equals : {Nil, Some(<<>>), Some(<<S5>>), Some(<<S5, S10>>)},
     NotEquals : {Nil, Some(<<>>), Some(<<Sabc>>)},
     GreaterThan : {Nil, Some([neg |-> FALSE, mag |-> <<5>>])},
     GreaterThanOrEqual : {Nil, Some([neg |-> TRUE, mag |-> <<3>>])},
     LessThan : {Nil, Some([neg |-> FALSE, mag |-> <<1, 0>>])},
     LessThanOrEqual : {Nil, Some([neg |-> FALSE, mag |-> Zero])}]

RemoteFields == {"updatedAt", "id", "unregistered"}

\* the key sets of the FindingCriteria the service may answer with
RemoteKeySets == {k \in SUBSET RemoteFields : Cardinality(k) <= MaxRemoteFields}

----------------------------------------------------------------------------
(* Values of the variables an operation has not touched *)

NotCalled == [kind |-> "none", fc |-> Nil, err |-> NoError]

\* a schema.ResourceData with no ID and every attribute at its zero value
NoResourceData ==
    [id |-> <<>>, detector_id |-> <<>>, name |-> <<>>, action |-> "",
     description |-> "", rank |-> 0, tags |-> {}, finding_criteria |-> <<>>]

\* a block with none of its keys
NoBlock ==
    [enabled |-> Nil, internal_user_database_enabled |-> Nil,
     master_user_options |-> Nil]

NoConfig ==
    [Enabled |-> Nil, InternalUserDatabaseEnabled |-> Nil, MasterUserOptions |-> Nil]

HandlersIdle ==
    /\ d = NoResourceData
    /\ remote = Nil
    /\ calls = <<>>
    /\ answers = <<>>
    /\ ret = [kind |-> "none", err |-> NoError]

ExpanderIdle ==
    /\ m = NoBlock
    /\ config = NoConfig

CodecIdle ==
    /\ input = <<>>
    /\ out = NotCalled
    /\ remoteFc = Nil
    /\ flat = <<>>
    /\ flatSet = {}

----------------------------------------------------------------------------
(* The codec as a state machine: a criterion list is serialized and the    *)
(* result flattened, or a FindingCriteria received from the service is     *)
(* flattened.                                                              *)

CodecInit ==
    /\ \/ /\ input \in CodecLists \cup ParseLists
          /\ remoteFc = Nil
          /\ pc = "input"
       \/ /\ input = <<>>
          /\ \E keys \in RemoteKeySets :
                \E c \in [keys -> RemoteConditions] :
                    remoteFc = Some([Criterion |-> c])
          /\ pc = "received"
    /\ out = NotCalled
    /\ flat = <<>>
    /\ flatSet = {}
    /\ HandlersIdle
    /\ ExpanderIdle

Serialize ==
    /\ pc = "input"
    /\ out' = serializeFindingCriteria(input)
    /\ remoteFc' = out'.fc
    /\ pc' = "serialized"
    /\ UNCHANGED <<input, flat, flatSet, d, remote, calls, answers, ret, m,
                   config>>

Flatten ==
    /\ pc \in {"serialized", "received"}
    /\ ~IsNil(remoteFc)
    /\ \E order \in IterationOrders(DOMAIN Deref(remoteFc).Criterion) :
          flat' = flattenLoop(Deref(remoteFc), order, Len(order))
    /\ flatSet' = flattenFindingCriteria(Deref(remoteFc),
                                         CHOOSE order \in IterationOrders(
                                             DOMAIN Deref(remoteFc).Criterion) : TRUE)
    /\ pc' = "flattened"
    /\ UNCHANGED <<input, out, remoteFc, d, remote, calls, answers, ret, m,
                   config>>

CodecNext == Serialize \/ Flatten

CodecSpec == CodecInit /\ [][CodecNext]_vars

----------------------------------------------------------------------------
(* Vocabulary of the properties of the codec *)

\* the error taxonomy: which kind of validation error a returned error is
ErrorKindOf(err) ==
    CASE err.msg = "The condition is not supported for the given field. Supported conditions are: %v"
            -> "UnsupportedCondition"
      [] err.msg = "Exactly one value must be given for conditions like less_ or greater_than. Instead given: %v"
            -> "MalformedValueCount"
      [] err.msg = "Value seems to be not an integer: %v" -> "MalformedValueType"
      [] OTHER -> "none"

\* the registry's allowed-condition set of a field
RegistryAllowed(field) ==
    IF field \in EqualityFields THEN {"equals", "not_equals"}
    ELSE IF field = "updatedAt"
    THEN {"equals", "not_equals"} \cup OrderingConditions
    ELSE {}

\* the text is an optional sign followed by one or more decimal digits
IsDecimalText(s) ==
    LET body == IF Len(s) > 0 /\ s[1] \in {"+", "-"} THEN SubSeq(s, 2, Len(s)) ELSE s
    IN  /\ Len(body) > 0
        /\ \A i \in 1..Len(body) :
              body[i] \in {"0", "1", "2", "3", "4", "5", "6", "7", "8", "9"}

\* the integer a decimal text denotes
DenotedInt(s) ==
    LET body == IF s[1] \in {"+", "-"} THEN SubSeq(s, 2, Len(s)) ELSE s
        lead == IF \E i \in 1..Len(body) : body[i] # "0"
                THEN CHOOSE i \in 1..Len(body) :
                        body[i] # "0" /\ \A j \in 1..(i - 1) : body[j] = "0"
                ELSE Len(body)
        sig == SubSeq(body, lead, Len(body))
        mag == [i \in 1..Len(sig) |-> DigitVal(sig[i])]
    IN  [neg |-> s[1] = "-" /\ mag # <<0>>, mag |-> mag]

\* 2^63
TwoTo63 == <<9, 2, 2, 3, 3, 7, 2, 0, 3, 6, 8, 5, 4, 7, 7, 5, 8, 0, 8>>

\* -2^63 <= v <= 2^63 - 1
InInt64(v) ==
    IF v.neg
    THEN Len(v.mag) < 19 \/ (Len(v.mag) = 19 /\ ~MagLess(TwoTo63, v.mag))
    ELSE Len(v.mag) < 19 \/ (Len(v.mag) = 19 /\ MagLess(v.mag, TwoTo63))

\* the base-10 string form of an integer
Base10(v) ==
    (IF v.neg THEN <<"-">> ELSE <<>>)
    \o [i \in 1..Len(v.mag) |->
          CASE v.mag[i] = 0 -> "0" [] v.mag[i] = 1 -> "1" [] v.mag[i] = 2 -> "2"
            [] v.mag[i] = 3 -> "3" [] v.mag[i] = 4 -> "4" [] v.mag[i] = 5 -> "5"
            [] v.mag[i] = 6 -> "6" [] v.mag[i] = 7 -> "7" [] v.mag[i] = 8 -> "8"
            [] v.mag[i] = 9 -> "9"]

\* a criterion passes the validation of serializeFindingCriteria on its own
PassesValidation(c) ==
    /\ c.condition \in RegistryAllowed(c.field)
    /\ c.condition \in OrderingConditions =>
          /\ Len(c.values) = 1
          /\ IsDecimalText(c.values[1])
          /\ InInt64(DenotedInt(c.values[1]))

\* the loop of the Serialize step reached its k-th criterion
Reached(k) == serializeLoop(input, k - 1, EmptyMap).kind = "ok"

Serialized == pc \in {"serialized", "flattened"} /\ out.kind # "none"

SameValuesUpToOrder(v, w) ==
    /\ Len(v) = Len(w)
    /\ \A x \in {v[i] : i \in 1..Len(v)} \cup {w[i] : i \in 1..Len(w)} :
          Cardinality({i \in 1..Len(v) : v[i] = x})
            = Cardinality({i \in 1..Len(w) : w[i] = x})

\* same field, same condition, same values: up to order for the string sets,
\* and as the integers they denote for the ordering conditions ("007" and
\* "7" are the same bound)
EquivalentCriterion(a, b) ==
    /\ a.field = b.field
    /\ a.condition = b.condition
    /\ IF a.condition \in OrderingConditions
       THEN /\ Len(a.values) = Len(b.values)
            /\ \A i \in 1..Len(a.values) :
                  /\ IsDecimalText(a.values[i]) = IsDecimalText(b.values[i])
                  /\ IF IsDecimalText(a.values[i])
                     THEN DenotedInt(a.values[i]) = DenotedInt(b.values[i])
                     ELSE a.values[i] = b.values[i]
       ELSE SameValuesUpToOrder(a.values, b.values)

EquivalentCriteria(A, B) ==
    /\ \A a \in A : \E b \in B : EquivalentCriterion(a, b)
    /\ \A b \in B : \E a \in A : EquivalentCriterion(a, b)

----------------------------------------------------------------------------
(* C1 *)

\* C1: round trip.  For every criterion list that serializeFindingCriteria
\* accepts, flattenFindingCriteria of the result is a set of criteria
\* equivalent to the input list.
C1_RoundTrip ==
    (pc = "flattened" /\ out.kind = "ok") =>
        EquivalentCriteria(NewSet(input), flatSet)

----------------------------------------------------------------------------
(* C2 *)

StringAttributeOf(condition, record) ==
    IF condition = "equals" THEN record.Equals ELSE record.NotEquals

\* C2: an equals (not_equals) criterion for a field sets only the Equals
\* (NotEquals) attribute of the field's Condition; the attributes earlier
\* criteria of the same call stored on it stay as they were.
C2_StringConditionFrame ==
    Serialized =>
        \A k \in 1..Len(input) :
            LET before == serializeLoop(input, k - 1, EmptyMap)
                after == serializeLoop(input, k, EmptyMap)
                c == input[k]
            IN  (/\ before.kind = "ok"
                 /\ after.kind = "ok"
                 /\ c.condition \in {"equals", "not_equals"}
                 /\ c.field \in DOMAIN before.criteria) =>
                    /\ StringAttributeOf(c.condition, after.criteria[c.field])
                         = Some(c.values)
                    /\ LET other == IF c.condition = "equals"
                                    THEN "not_equals" ELSE "equals"
                       IN  StringAttributeOf(other, after.criteria[c.field])
                             = StringAttributeOf(other, before.criteria[c.field])
                    /\ \A o \in OrderingConditions :
                          ScalarOf(o, after.criteria[c.field])
                            = ScalarOf(o, before.criteria[c.field])

----------------------------------------------------------------------------
(* C3 *)

\* C3: an ordering criterion on a field that allows it, given no value or
\* more than one, makes serializeFindingCriteria return a value-count error
\* and no FindingCriteria; it does not panic.
C3_ValueCountError ==
    Serialized =>
        \A k \in 1..Len(input) :
            (/\ Reached(k)
             /\ input[k].condition \in OrderingConditions
             /\ input[k].condition \in RegistryAllowed(input[k].field)
             /\ Len(input[k].values) # 1) =>
                /\ out.kind = "error"
                /\ ErrorKindOf(out.err) = "MalformedValueCount"
                /\ out.fc = Nil

----------------------------------------------------------------------------
(* C4 *)

HasUnsupported == \E k \in 1..Len(input) :
    input[k].condition \notin RegistryAllowed(input[k].field)

FirstUnsupported ==
    CHOOSE k \in 1..Len(input) :
        /\ input[k].condition \notin RegistryAllowed(input[k].field)
        /\ \A j \in 1..(k - 1) : input[j].condition \in RegistryAllowed(input[j].field)

\* C4 as stated: a list holding a criterion whose condition the registry
\* does not allow for its field is answered with UnsupportedCondition,
\* whatever else the list holds.  (The calls that end in the panic of C3 are
\* left aside: the statement fails on calls that return.)
C4_UnsupportedWhateverElse ==
    (Serialized /\ HasUnsupported /\ out.kind # "panic") =>
        /\ out.kind = "error"
        /\ ErrorKindOf(out.err) = "UnsupportedCondition"
        /\ out.fc = Nil

\* C4 as amended: such a list never yields a FindingCriteria, and it is
\* answered with UnsupportedCondition, naming the allowed conditions of the
\* field, when every criterion before the first unsupported one passes its
\* own validation.
C4_UnsupportedFirstFailure ==
    (Serialized /\ HasUnsupported) =>
        /\ out.kind # "ok"
        /\ out.fc = Nil
        /\ (\A j \in 1..(FirstUnsupported - 1) : PassesValidation(input[j])) =>
              /\ out.kind = "error"
              /\ ErrorKindOf(out.err) = "UnsupportedCondition"
              /\ out.err.arg = RegistryLookup(input[FirstUnsupported].field)

C4_Witness ==
    /\ Serialized
    /\ Len(input) = 2
    /\ input[1].field \in DOMAIN criteriaMap
    /\ PassesValidation(input[1])
    /\ input[1].condition \in OrderingConditions
    /\ input[2].field = "id"
    /\ input[2].condition = "greater_than"
    /\ Len(input[2].values) = 0
    /\ ErrorKindOf(out.err) = "UnsupportedCondition"

----------------------------------------------------------------------------
(* C5 *)

IndicesOf(field) == {k \in 1..Len(input) : input[k].field = field}

\* two or more criteria on the field, all of them ordering conditions, no
\* condition twice
SeveralBounds(field) ==
    /\ Cardinality(IndicesOf(field)) >= 2
    /\ \A k \in IndicesOf(field) : input[k].condition \in OrderingConditions
    /\ \A j, k \in IndicesOf(field) : j # k => input[j].condition # input[k].condition

\* C5: criteria with different ordering conditions on one field, in any
\* order, end on one Condition that carries every bound, and flattening it
\* gives one criterion per bound, its value in base-10 form.
C5_OrderingBoundsCombine ==
    (Serialized /\ out.kind = "ok") =>
        \A f \in {input[k].field : k \in 1..Len(input)} :
            SeveralBounds(f) =>
                /\ f \in DOMAIN Deref(out.fc).Criterion
                /\ \A k \in IndicesOf(f) :
                      ScalarOf(input[k].condition, Deref(out.fc).Criterion[f])
                        = Some(DenotedInt(input[k].values[1]))
                /\ pc = "flattened" =>
                      {x \in flatSet : x.field = f}
                        = {Criterion(f, input[k].condition,
                                     <<Base10(DenotedInt(input[k].values[1]))>>) :
                              k \in IndicesOf(f)}

C5_Witness ==
    /\ pc = "flattened"
    /\ out.kind = "ok"
    /\ input = <<Criterion("updatedAt", "less_than", <<S10>>),
                 Criterion("updatedAt", "greater_than", <<S5>>)>>
    /\ flatSet = {Criterion("updatedAt", "greater_than", <<S5>>),
                  Criterion("updatedAt", "less_than", <<S10>>)}

----------------------------------------------------------------------------
(* C6 *)

\* C6: an ordering criterion with exactly one value is accepted if and only
\* if the value is the base-10 text of an integer of the signed 64-bit
\* range, and then the scalar stored is that integer; any other single value
\* is answered with MalformedValueType and no FindingCriteria.
C6_Int64Text ==
    Serialized =>
        \A k \in 1..Len(input) :
            (/\ Reached(k)
             /\ input[k].condition \in OrderingConditions
             /\ input[k].condition \in RegistryAllowed(input[k].field)
             /\ Len(input[k].values) = 1) =>
                LET s == input[k].values[1]
                    after == serializeLoop(input, k, EmptyMap)
                IN  IF IsDecimalText(s) /\ InInt64(DenotedInt(s))
                    THEN /\ after.kind = "ok"
                         /\ ScalarOf(input[k].condition,
                                     after.criteria[input[k].field])
                              = Some(DenotedInt(s))
                         /\ k = Len(input) => out.kind = "ok"
                    ELSE /\ after.kind = "error"
                         /\ out.kind = "error"
                         /\ ErrorKindOf(out.err) = "MalformedValueType"
                         /\ out.fc = Nil

C6_Witness ==
    /\ Serialized
    /\ Len(input) = 1
    /\ input[1].condition = "less_than_or_equal"
    /\ input[1].values =
          << <<"-", "9", "2", "2", "3", "3", "7", "2", "0", "3", "6", "8", "5",
               "4", "7", "7", "5", "8", "0", "8">> >>
    /\ out.kind = "ok"
    /\ Deref(out.fc).Criterion["updatedAt"].LessThanOrEqual
          = Some([neg |-> TRUE, mag |-> TwoTo63])

----------------------------------------------------------------------------
(* C8 *)

\* the place of a condition in the order flattenFindingCriteria checks them
Rank(condition) ==
    CHOOSE i \in 1..6 : AllConditions[i] = condition

\* the attribute is present and, for a string set, holds a value
PresentNonEmpty(condition, record) ==
    IF condition \in OrderingConditions
    THEN ScalarOf(condition, record) # Nil
    ELSE /\ StringAttributeOf(condition, record) # Nil
         /\ Len(StringAttributeOf(condition, record)[1]) > 0

\* what flatCriteria holds for one field, in the order appended
EmittedFor(field) == SelectSeq(flat, LAMBDA x : x.field = field)

\* C8: for every field of the FindingCriteria, flattenFindingCriteria
\* appends one criterion per attribute that is present and non-empty, none
\* for the others, in the order equals, not_equals, greater_than,
\* greater_than_or_equal, less_than, less_than_or_equal; an ordering
\* criterion holds one value.
C8_OnePerAttributeInOrder ==
    pc = "flattened" =>
        /\ \A i \in 1..Len(flat) : flat[i].field \in DOMAIN Deref(remoteFc).Criterion
        /\ \A f \in DOMAIN Deref(remoteFc).Criterion :
              LET e == EmittedFor(f)
                  record == Deref(remoteFc).Criterion[f]
              IN  /\ \A i \in 1..(Len(e) - 1) :
                        Rank(e[i].condition) < Rank(e[i + 1].condition)
                  /\ \A i \in 1..6 :
                        (\E j \in 1..Len(e) : e[j].condition = AllConditions[i])
                          <=> PresentNonEmpty(AllConditions[i], record)
                  /\ \A j \in 1..Len(e) :
                        IF e[j].condition \in OrderingConditions
                        THEN e[j].values
                               = <<Base10(ScalarOf(e[j].condition, record)[1])>>
                        ELSE e[j].values
                               = StringAttributeOf(e[j].condition, record)[1]

C8_Witness ==
    /\ pc = "flattened"
    /\ out.kind = "none"
    /\ DOMAIN Deref(remoteFc).Criterion = {"updatedAt"}
    /\ Deref(remoteFc).Criterion["updatedAt"].Equals = Some(<<>>)
    /\ Deref(remoteFc).Criterion["updatedAt"].GreaterThan = Nil
    /\ [i \in 1..Len(flat) |-> flat[i].condition]
          = <<"not_equals", "greater_than_or_equal", "less_than",
              "less_than_or_equal">>

----------------------------------------------------------------------------
(* C9 *)

\* C9: when serializeFindingCriteria succeeds, the keys of the mapping it
\* returns are exactly the fields the input criteria name.
C9_KeysAreInputFields ==
    (Serialized /\ out.kind = "ok") =>
        DOMAIN Deref(out.fc).Criterion = {input[k].field : k \in 1..Len(input)}

C9_Witness ==
    /\ Serialized
    /\ out.kind = "ok"
    /\ Len(input) = 2
    /\ input[1].field = "updatedAt"
    /\ input[2].field = "updatedAt"
    /\ DOMAIN Deref(out.fc).Criterion = {"updatedAt"}

----------------------------------------------------------------------------
(* The resource handlers *)

\* strings.Join([]string{a, b}, "_")
JoinId(a, b) == a \o <<"_">> \o b

parseImportedId_LastUnderscore(importedId) ==
    IF \A i \in 1..Len(importedId) : importedId[i] # "_"
    THEN [detectorId |-> <<>>, name |-> <<>>,
          err |-> [msg |-> "Error Importing aws_guardduty_filter record: '%s' Please make sure the record ID is in the form detectorId_name.",
                   arg |-> importedId]]
    ELSE LET at == CHOOSE i \in 1..Len(importedId) :
                      /\ importedId[i] = "_"
                      /\ \A j \in (i + 1)..Len(importedId) : importedId[j] # "_"
         IN  [detectorId |-> SubSeq(importedId, 1, at - 1),
              name |-> SubSeq(importedId, at + 1, Len(importedId)),
              err |-> NoError]

\* parseImportedId: strings.SplitN(importedId, "_", 2), an error for fewer
\* than two parts
parseImportedId(importedId) ==
    IF \A i \in 1..Len(importedId) : importedId[i] # "_"
    THEN [detectorId |-> <<>>, name |-> <<>>,
          err |-> [msg |-> "Error Importing aws_guardduty_filter record: '%s' Please make sure the record ID is in the form detectorId_name.",
                   arg |-> importedId]]
    ELSE LET at == CHOOSE i \in 1..Len(importedId) :
                      /\ importedId[i] = "_"
                      /\ \A j \in 1..(i - 1) : importedId[j] # "_"
         IN  [detectorId |-> SubSeq(importedId, 1, at - 1),
              name |-> SubSeq(importedId, at + 1, Len(importedId)),
              err |-> NoError]

ReturnNil == [kind |-> "nil", err |-> NoError]

ReturnError(err) == [kind |-> "error", err |-> err]

ReturnPanic(err) == [kind |-> "panic", err |-> err]

\* how a remote call may end
GetFilterOutcomes == {"ok", "detectorNotOwned", "otherError"}

\* conn.GetFilter answers with the filter only if the service holds it
\* under that detector and name
GetFilterCan(rem, detectorId, name, outcome) ==
    outcome = "ok" =>
        /\ ~IsNil(rem)
        /\ Deref(rem).DetectorId = detectorId
        /\ Deref(rem).Name = name

GetFilterFailed_AlwaysRemoves(dd, name, outcome) ==
    [d |-> [dd EXCEPT !.id = <<>>], ret |-> ReturnNil]

\* the branch err != nil after conn.GetFilter: the detector-not-owned error
\* removes the resource from the state, any other error is returned
GetFilterFailed(dd, name, outcome) ==
    IF outcome = "detectorNotOwned"
    THEN [d |-> [dd EXCEPT !.id = <<>>], ret |-> ReturnNil]
    ELSE [d |-> dd,
          ret |-> ReturnError([msg |-> "Reading GuardDuty Filter '%s' failed: %s",
                               arg |-> name])]

\* resourceAwsGuardDutyFilterRead on the resource data dd, the service
\* holding rem, after the calls `issued` of the calling handler, answered
\* with `answered`
ReadBody(dd, rem, issued, answered) ==
    LET import == Len(dd.detector_id) = 0
        parsed == parseImportedId(dd.id)
        detectorId == IF import THEN parsed.detectorId ELSE dd.detector_id
        name == IF import THEN parsed.name ELSE dd.name
    IN  IF import /\ parsed.err # NoError
        THEN /\ d' = dd
             /\ calls' = issued
             /\ answers' = answered
             /\ ret' = ReturnError(parsed.err)
        ELSE /\ calls' = Append(issued, "GetFilter")
             /\ \E outcome \in GetFilterOutcomes :
                   /\ GetFilterCan(rem, detectorId, name, outcome)
                   /\ answers' = Append(answered, outcome)
                   /\ IF outcome # "ok"
                      THEN /\ d' = GetFilterFailed(dd, name, outcome).d
                           /\ ret' = GetFilterFailed(dd, name, outcome).ret
                      ELSE LET filter == Deref(rem)
                           IN  /\ \E order \in IterationOrders(
                                           DOMAIN filter.FindingCriteria.Criterion) :
                                     \E listing \in Listings(flattenFindingCriteria(
                                                       filter.FindingCriteria, order)) :
                                         d' = [id |-> JoinId(detectorId, name),
                                               detector_id |-> detectorId,
                                               name |-> filter.Name,
                                               action |-> filter.Action,
                                               description |-> filter.Description,
                                               rank |-> filter.Rank,
                                               tags |-> filter.Tags,
                                               finding_criteria |-> listing]
                               /\ ret' = ReturnNil

\* resourceAwsGuardDutyFilterCreate
resourceAwsGuardDutyFilterCreate ==
    /\ pc \in {"planned"}
    /\ Len(d.id) = 0
    /\ pc' = "created"
    /\ LET serialized == serializeFindingCriteria(d.finding_criteria)
       IN  IF serialized.kind # "ok"
           THEN /\ ret' = IF serialized.kind = "panic"
                          THEN ReturnPanic(serialized.err)
                          ELSE ReturnError(serialized.err)
                /\ calls' = <<>>
                /\ answers' = <<>>
                /\ UNCHANGED <<d, remote>>
           ELSE \/ /\ calls' = <<"CreateFilter">>
                   /\ answers' = <<"error">>
                   /\ ret' = ReturnError(
                         [msg |-> "Creating GuardDuty Filter %s failed: %s",
                          arg |-> d.name])
                   /\ UNCHANGED <<d, remote>>
                \/ /\ IsNil(remote)
                   /\ remote' = Some([DetectorId |-> d.detector_id,
                                      Name |-> d.name,
                                      Action |-> d.action,
                                      Description |-> d.description,
                                      Rank |-> d.rank,
                                      Tags |-> d.tags,
                                      FindingCriteria |-> Deref(serialized.fc)])
                   /\ ReadBody([d EXCEPT !.id = JoinId(d.detector_id, d.name)],
                               remote', <<"CreateFilter">>, <<"ok">>)
    /\ UNCHANGED <<input, out, remoteFc, flat, flatSet, m, config>>

\* resourceAwsGuardDutyFilterRead
resourceAwsGuardDutyFilterRead ==
    /\ pc \in {"created", "read", "updated", "imported", "planned"}
    /\ Len(d.id) > 0
    /\ pc' = "read"
    /\ ReadBody(d, remote, <<>>, <<>>)
    /\ UNCHANGED <<remote, input, out, remoteFc, flat, flatSet, m, config>>

resourceAwsGuardDutyFilterUpdate_CallFirst ==
    /\ pc \in {"planned"}
    /\ Len(d.id) > 0
    /\ pc' = "updated"
    /\ calls' = <<"UpdateFilter">>
    /\ answers' = <<"error">>
    /\ LET serialized == serializeFindingCriteria(d.finding_criteria)
       IN  ret' = IF serialized.kind = "panic" THEN ReturnPanic(serialized.err)
                  ELSE IF serialized.kind = "error" THEN ReturnError(serialized.err)
                  ELSE ReturnError(
                         [msg |-> "Updating GuardDuty Filter with ID %s failed: %s",
                          arg |-> d.id])
    /\ UNCHANGED <<d, remote, input, out, remoteFc, flat, flatSet, m, config>>

\* resourceAwsGuardDutyFilterUpdate
resourceAwsGuardDutyFilterUpdate ==
    /\ pc \in {"planned"}
    /\ Len(d.id) > 0
    /\ pc' = "updated"
    /\ LET serialized == serializeFindingCriteria(d.finding_criteria)
       IN  IF serialized.kind # "ok"
           THEN /\ ret' = IF serialized.kind = "panic"
                          THEN ReturnPanic(serialized.err)
                          ELSE ReturnError(serialized.err)
                /\ calls' = <<>>
                /\ answers' = <<>>
                /\ UNCHANGED <<d, remote>>
           ELSE \/ /\ calls' = <<"UpdateFilter">>
                   /\ answers' = <<"error">>
                   /\ ret' = ReturnError(
                         [msg |-> "Updating GuardDuty Filter with ID %s failed: %s",
                          arg |-> d.id])
                   /\ UNCHANGED <<d, remote>>
                \/ /\ ~IsNil(remote)
                   /\ Deref(remote).DetectorId = d.detector_id
                   /\ Deref(remote).Name = d.name
                   /\ remote' = Some([Deref(remote) EXCEPT
                                        !.Action = d.action,
                                        !.Description = d.description,
                                        !.Rank = d.rank,
                                        !.FindingCriteria = Deref(serialized.fc)])
                   /\ ReadBody(d, remote', <<"UpdateFilter">>, <<"ok">>)
    /\ UNCHANGED <<input, out, remoteFc, flat, flatSet, m, config>>

\* resourceAwsGuardDutyFilterDelete; after a delete that returned nil the
\* framework drops the resource from the state
resourceAwsGuardDutyFilterDelete ==
    /\ pc \in {"created", "read", "updated", "planned"}
    /\ Len(d.id) > 0
    /\ pc' = "deleted"
    /\ calls' = <<"DeleteFilter">>
    /\ \/ /\ ret' = ReturnError(
                [msg |-> "Deleting GuardDuty Filter '%s' failed: %s", arg |-> d.id])
          /\ answers' = <<"error">>
          /\ UNCHANGED <<d, remote>>
       \/ /\ ~IsNil(remote)
          /\ Deref(remote).DetectorId = d.detector_id
          /\ Deref(remote).Name = d.name
          /\ remote' = Nil
          /\ answers' = <<"ok">>
          /\ d' = [d EXCEPT !.id = <<>>]
          /\ ret' = ReturnNil
    /\ UNCHANGED <<input, out, remoteFc, flat, flatSet, m, config>>

----------------------------------------------------------------------------
(* Configurations the handlers are run with *)

\* detector and filter name of the configured resource
Configured ==
    { [detector_id |-> <<"d", "1">>, name |-> <<"f", "l", "t">>],
      [detector_id |-> <<"d", "1">>, name |-> <<"a", "_", "b">>],
      [detector_id |-> <<"d", "_", "2">>, name |-> <<"a", "_", "b">>] }

Actions == {"NOOP", "ARCHIVE"}

\* criteria that pass the schema's own checks of field and condition
HandlerCriteria ==
    { Criterion("updatedAt", "greater_than", <<S5>>),
      Criterion("updatedAt", "less_than", <<S10>>),
      Criterion("updatedAt", "greater_than_or_equal", <<>>),
      Criterion("updatedAt", "less_than_or_equal", <<Sabc>>),
      Criterion("id", "equals", <<S5>>),
      Criterion("id", "not_equals", <<S5, S10>>),
      Criterion("id", "greater_than", <<S5>>) }

HandlerLists == ListsOf(HandlerCriteria, MaxCriteria)

\* what the service holds for a filter created earlier
ExistingFindingCriteria ==
    { [Criterion |-> EmptyMap],
      [Criterion |-> [f \in {"id"} |->
                        [EmptyCondition EXCEPT !.Equals = Some(<<S5>>)]]],
      [Criterion |-> [f \in {"updatedAt", "id"} |->
                        IF f = "id"
                        THEN [EmptyCondition EXCEPT !.NotEquals = Some(<<Sabc>>)]
                        ELSE [EmptyCondition EXCEPT
                                !.GreaterThan = Some([neg |-> FALSE, mag |-> <<5>>]),
                                !.LessThan = Some([neg |-> FALSE, mag |-> <<1, 0>>])]]] }

\* IDs given to terraform import
ImportedIds ==
    { <<"d", "1", "_", "f", "l", "t">>, <<"d", "1", "_", "a", "_", "b">>,
      <<"d", "_", "2", "_", "a", "_", "b">>, <<"d", "1", "f", "l", "t">> }

\* a configuration is planned, for a resource that does not exist yet or for
\* one created earlier
Init ==
    /\ \E c \in Configured, a \in Actions, l \in HandlerLists :
          \/ /\ d = [id |-> <<>>, detector_id |-> c.detector_id, name |-> c.name,
                     action |-> a, description |-> "filter", rank |-> 1,
                     tags |-> {}, finding_criteria |-> l]
             /\ remote = Nil
          \/ /\ d = [id |-> JoinId(c.detector_id, c.name),
                     detector_id |-> c.detector_id, name |-> c.name,
                     action |-> a, description |-> "filter", rank |-> 1,
                     tags |-> {}, finding_criteria |-> l]
             /\ \E ra \in Actions, fc \in ExistingFindingCriteria :
                   remote = Some([DetectorId |-> c.detector_id, Name |-> c.name,
                                  Action |-> ra, Description |-> "", Rank |-> 2,
                                  Tags |-> {}, FindingCriteria |-> fc])
    /\ calls = <<>>
    /\ answers = <<>>
    /\ ret = [kind |-> "none", err |-> NoError]
    /\ pc = "planned"
    /\ CodecIdle
    /\ ExpanderIdle

\* schema.ImportStatePassthrough: a resource data holding the given ID only
Import ==
    /\ pc \in {"planned", "deleted"}
    /\ \E id \in ImportedIds : d' = [NoResourceData EXCEPT !.id = id]
    /\ pc' = "imported"
    /\ UNCHANGED <<remote, calls, answers, ret, input, out, remoteFc, flat,
                   flatSet, m, config>>

Next ==
    \/ resourceAwsGuardDutyFilterCreate
    \/ resourceAwsGuardDutyFilterRead
    \/ resourceAwsGuardDutyFilterUpdate
    \/ resourceAwsGuardDutyFilterDelete
    \/ Import

Spec == Init /\ [][Next]_vars

----------------------------------------------------------------------------
(* C7 *)

\* C7: in the create and the update handler serialization comes before any
\* remote call: when it returns an error the handler issues no call, leaves
\* the resource ID (and the service) as they were, and returns that error.
C7_SerializeBeforeRemoteCall ==
    [][(/\ pc = "planned"
        /\ pc' \in {"created", "updated"}
        /\ serializeFindingCriteria(d.finding_criteria).kind = "error") =>
            /\ calls' = <<>>
            /\ d'.id = d.id
            /\ remote' = remote
            /\ ret' = ReturnError(serializeFindingCriteria(d.finding_criteria).err)]_vars

C7_Witness ==
    /\ pc = "updated"
    /\ ret.kind = "error"
    /\ ErrorKindOf(ret.err) = "MalformedValueType"
    /\ calls = <<>>
    /\ Len(d.id) > 0
    /\ ~IsNil(remote)

----------------------------------------------------------------------------
(* expandAdvancedSecurityOptions *)

\* the keys of a block are Nil when absent; master_user_options, when
\* present, is a list that is empty, holds a nil element or holds one block
MasterUserBlocks ==
    [master_user_arn : {Nil, Some(""), Some("arn:aws:iam::1:user/u")},
     master_user_name : {Nil, Some(""), Some("admin")},
     master_user_password : {Nil, Some(""), Some("secret")}]

Blocks ==
    [enabled : {Nil, Some(TRUE), Some(FALSE)},
     internal_user_database_enabled : {Nil, Some(TRUE), Some(FALSE)},
     master_user_options :
        {Nil, Some(<<>>), Some(<<Nil>>)} \cup {Some(<<Some(b)>>) : b \in MasterUserBlocks}]

\* v, ok := x.(string); ok && v != ""
NonEmptyString(p) == IF ~IsNil(p) /\ Deref(p) # "" THEN p ELSE Nil

\* the elasticsearch.MasterUserOptions built from the first element of the list
expandMasterUserOptions(masterUserOptions) ==
    [MasterUserARN |-> NonEmptyString(masterUserOptions.master_user_arn),
     MasterUserName |-> NonEmptyString(masterUserOptions.master_user_name),
     MasterUserPassword |-> NonEmptyString(masterUserOptions.master_user_password)]

expandAdvancedSecurityOptions_AlwaysCopies(group) ==
    IF IsNil(group.enabled) THEN NoConfig
    ELSE [Enabled |-> group.enabled,
          InternalUserDatabaseEnabled |-> group.internal_user_database_enabled,
          MasterUserOptions |->
             IF /\ ~IsNil(group.master_user_options)
                /\ Len(Deref(group.master_user_options)) > 0
                /\ ~IsNil(Deref(group.master_user_options)[1])
             THEN Some(expandMasterUserOptions(
                          Deref(Deref(group.master_user_options)[1])))
             ELSE Nil]

\* expandAdvancedSecurityOptions on m[0]
expandAdvancedSecurityOptions(group) ==
    IF IsNil(group.enabled) THEN NoConfig
    ELSE IF ~Deref(group.enabled)
    THEN [NoConfig EXCEPT !.Enabled = group.enabled]
    ELSE [Enabled |-> group.enabled,
          InternalUserDatabaseEnabled |-> group.internal_user_database_enabled,
          MasterUserOptions |->
             IF /\ ~IsNil(group.master_user_options)
                /\ Len(Deref(group.master_user_options)) > 0
                /\ ~IsNil(Deref(group.master_user_options)[1])
             THEN Some(expandMasterUserOptions(
                          Deref(Deref(group.master_user_options)[1])))
             ELSE Nil]

ExpandInit ==
    /\ m \in Blocks
    /\ config = NoConfig
    /\ pc = "block"
    /\ CodecIdle
    /\ HandlersIdle

Expand ==
    /\ pc = "block"
    /\ config' = expandAdvancedSecurityOptions(m)
    /\ pc' = "expanded"
    /\ UNCHANGED <<m, input, out, remoteFc, flat, flatSet, d, remote, calls,
                   answers, ret>>

ExpandNext == Expand

ExpandSpec == ExpandInit /\ [][ExpandNext]_vars

----------------------------------------------------------------------------
(* C10 *)

\* master_user_options holds a block
HasMasterUserBlock ==
    /\ m.master_user_options # Nil
    /\ Len(m.master_user_options[1]) > 0
    /\ m.master_user_options[1][1] # Nil

\* the result has the string set exactly when the input string is non-empty
SetIffNonEmpty(result, given) ==
    IF given # Nil /\ given[1] # "" THEN result = given ELSE result = Nil

\* C10: internal_user_database_enabled and master_user_options reach the
\* request only when enabled is true: with enabled false the result has
\* Enabled = false and neither of them; with enabled true and a
\* master_user_options block, ARN, name and password are each set if and
\* only if the input string is non-empty.
C10_CopiedOnlyWhenEnabled ==
    pc = "expanded" =>
        /\ m.enabled = Some(FALSE) =>
              /\ config.Enabled = Some(FALSE)
              /\ config.InternalUserDatabaseEnabled = Nil
              /\ config.MasterUserOptions = Nil
        /\ m.enabled # Some(TRUE) =>
              /\ config.InternalUserDatabaseEnabled = Nil
              /\ config.MasterUserOptions = Nil
        /\ (m.enabled = Some(TRUE) /\ HasMasterUserBlock) =>
              /\ config.Enabled = Some(TRUE)
              /\ config.MasterUserOptions # Nil
              /\ SetIffNonEmpty(config.MasterUserOptions[1].MasterUserARN,
                                m.master_user_options[1][1][1].master_user_arn)
              /\ SetIffNonEmpty(config.MasterUserOptions[1].MasterUserName,
                                m.master_user_options[1][1][1].master_user_name)
              /\ SetIffNonEmpty(config.MasterUserOptions[1].MasterUserPassword,
                                m.master_user_options[1][1][1].master_user_password)

C10_Witness ==
    /\ pc = "expanded"
    /\ m.enabled = Some(FALSE)
    /\ m.internal_user_database_enabled = Some(TRUE)
    /\ HasMasterUserBlock
    /\ m.master_user_options[1][1][1].master_user_name = Some("admin")
    /\ config.Enabled = Some(FALSE)
    /\ config.MasterUserOptions = Nil

----------------------------------------------------------------------------
(* C11 *)

NoUnderscore(str) == \A i \in 1..Len(str) : str[i] # "_"

\* a handler that ends in a successful read has just returned
ReadSucceeded ==
    /\ pc \in {"created", "read", "updated"}
    /\ ret.kind = "nil"
    /\ Len(d.id) > 0

\* C11: the create and the read handler leave the resource ID at
\* detector_id + "_" + name; parseImportedId of such an ID gives back the
\* detector ID and the name when the detector ID holds no underscore (the
\* name may hold some); and parseImportedId answers an ID without any
\* underscore with an error, an empty detector ID and an empty name, which
\* the read handler returns before any call.
C11_IdRoundTrip ==
    /\ ReadSucceeded =>
          /\ d.id = d.detector_id \o <<"_">> \o d.name
          /\ NoUnderscore(d.detector_id) =>
                parseImportedId(d.id)
                  = [detectorId |-> d.detector_id, name |-> d.name, err |-> NoError]
    /\ (Len(d.id) > 0 /\ NoUnderscore(d.id)) =>
          /\ parseImportedId(d.id).err # NoError
          /\ parseImportedId(d.id).detectorId = <<>>
          /\ parseImportedId(d.id).name = <<>>
          /\ pc = "read" =>
                /\ ret = ReturnError(parseImportedId(d.id).err)
                /\ calls = <<>>

C11_Witness ==
    /\ ReadSucceeded
    /\ pc = "read"
    /\ calls = <<"GetFilter">>
    /\ d.id = <<"d", "1", "_", "a", "_", "b">>
    /\ d.detector_id = <<"d", "1">>
    /\ d.name = <<"a", "_", "b">>

----------------------------------------------------------------------------
(* C12 *)

\* the step is one of a handler that ran the read and reached conn.GetFilter
ReadCalledGetFilter ==
    /\ pc' \in {"created", "read", "updated"}
    /\ Len(calls') > 0
    /\ calls'[Len(calls')] = "GetFilter"

\* the resource data the read was entered with: the create handler has set
\* the ID before it reads
ReadEntered ==
    IF pc' = "created" THEN [d EXCEPT !.id = d.detector_id \o <<"_">> \o d.name] ELSE d

\* detector ID and name the read asks the service for
ReadDetectorId ==
    IF Len(ReadEntered.detector_id) = 0
    THEN parseImportedId(ReadEntered.id).detectorId ELSE ReadEntered.detector_id

ReadName ==
    IF Len(ReadEntered.detector_id) = 0
    THEN parseImportedId(ReadEntered.id).name ELSE ReadEntered.name

\* C12: in the read handler, a GetFilter that fails because the detector is
\* not owned by the account clears the resource ID, writes no attribute and
\* the handler returns success; a GetFilter that fails otherwise makes the
\* handler return an error with the ID and all attributes unchanged; the ID
\* is set to detectorId_name only after a GetFilter that succeeded.
C12_ReadErrorPaths ==
    [][/\ ReadCalledGetFilter =>
            /\ answers'[Len(answers')] = "detectorNotOwned" =>
                  /\ d' = [ReadEntered EXCEPT !.id = <<>>]
                  /\ ret' = ReturnNil
            /\ answers'[Len(answers')] = "otherError" =>
                  /\ d' = ReadEntered
                  /\ ret'.kind = "error"
                  /\ ret'.err.msg = "Reading GuardDuty Filter '%s' failed: %s"
            /\ answers'[Len(answers')] = "ok" =>
                  /\ d'.id = ReadDetectorId \o <<"_">> \o ReadName
                  /\ ret' = ReturnNil
       /\ (pc' = "read" /\ d' # d /\ d'.id # <<>>) =>
            /\ ReadCalledGetFilter
            /\ answers'[Len(answers')] = "ok"]_vars

C12_Witness ==
    /\ pc = "read"
    /\ calls = <<"GetFilter">>
    /\ answers = <<"detectorNotOwned">>
    /\ d.id = <<>>
    /\ d.detector_id = <<"d", "1">>
    /\ d.finding_criteria # <<>>
    /\ ret = ReturnNil

====
